---- MODULE Spec2Model ----
(***************************************************************************)
(* Freezy: a Slack slash-command webhook (src/index.py) that keeps an      *)
(* in-memory set of repositories on code freeze.                           *)
(*                                                                         *)
(* Strings the code inspects (the command text, the timestamp header) are  *)
(* sequences of one-character strings, so strip/split/upper/lower/int are  *)
(* computed as Python computes them.  time.time() is a float: the clock is *)
(* counted in ticks of 1/TicksPerSec second.  HMAC-SHA256 is an injective  *)
(* keyed function: a digest is the record of the key and of the signed     *)
(* timestamp and body.                                                     *)
(***************************************************************************)
EXTENDS Integers, Sequences, FiniteSets, TLC

VARIABLES
    frozen_repos,   \* the process-wide set of frozen repository names
    pc,             \* per request thread: the position in slack_command
    req,            \* per thread: the request being handled
    now,            \* per thread: the value time.time() returned, in ticks
    before,         \* per thread: frozen_repos when the request arrived
    unfrozen,       \* per thread: handle_unfreeze's local `unfrozen`
    message,        \* per thread: the message handed to send_slack_message
    it,             \* per thread: the set iterator of handle_check
    posts,          \* per thread: the payloads posted to Slack for the request
    response_data,  \* per thread: Slack's answer to the post
    resp            \* per thread: the response returned to the webhook caller

vars == <<frozen_repos, pc, req, now, before, unfrozen, message, it, posts,
          response_data, resp>>

----------------------------------------------------------------------------
(* Bounds of the model *)

NumThreads == 2      \* request threads of the concurrent specification
MaxTextLen == 3      \* length of the generated command texts
TicksPerSec == 2     \* resolution of the clock
ClockStart == 1000   \* the second at which requests arrive
MaxFrozen == 2       \* names frozen at once in the sequential specification

(* Program constants *)

ReplayWindow == 300  \* seconds

Threads == 1 .. NumThreads

----------------------------------------------------------------------------
(* Python string operations *)

Whitespace == {" "}

UpperChar(c) ==
    CASE c = "a" -> "A" [] c = "b" -> "B" [] c = "l" -> "L" [] c = "x" -> "X"
      [] OTHER -> c

LowerChar(c) ==
    CASE c = "A" -> "a" [] c = "B" -> "b" [] c = "L" -> "l" [] c = "X" -> "x"
      [] OTHER -> c

upper(s) == [i \in 1 .. Len(s) |-> UpperChar(s[i])]

lower(s) == [i \in 1 .. Len(s) |-> LowerChar(s[i])]

RECURSIVE lstrip(_)
lstrip(s) ==
    IF s # <<>> /\ Head(s) \in Whitespace THEN lstrip(Tail(s)) ELSE s

RECURSIVE rstrip(_)
rstrip(s) ==
    IF s # <<>> /\ s[Len(s)] \in Whitespace
    THEN rstrip(SubSeq(s, 1, Len(s) - 1))
    ELSE s

strip(s) == rstrip(lstrip(s))

(* s.split(sep): the pieces between the separators, in order; the empty   *)
(* string splits into one empty piece.                                     *)
RECURSIVE SplitFrom(_, _, _)
SplitFrom(s, sep, piece) ==
    IF s = <<>> THEN <<piece>>
    ELSE IF Head(s) = sep THEN <<piece>> \o SplitFrom(Tail(s), sep, <<>>)
    ELSE SplitFrom(Tail(s), sep, Append(piece, Head(s)))

split(s, sep) == SplitFrom(s, sep, <<>>)

Range(f) == {f[i] : i \in DOMAIN f}

(* {repo.strip().upper() for repo in repo_name.split(",") if repo.strip()} *)
ParseReposKeepCase(repo_name) ==
    {strip(repo) : repo \in {p \in Range(split(repo_name, ",")) : strip(p) # <<>>}}

ParseRepos(repo_name) ==
    {upper(strip(repo)) : repo \in {p \in Range(split(repo_name, ",")) : strip(p) # <<>>}}

ALL == <<"a", "l", "l">>

IsAllExact(repo_name) == repo_name = ALL

IsAll(repo_name) == lower(repo_name) = ALL

----------------------------------------------------------------------------
(* int(timestamp) and the decimal strings timestamps are *)

Digits == <<"0", "1", "2", "3", "4", "5", "6", "7", "8", "9">>

DigitValue(c) ==
    CASE c = "0" -> 0 [] c = "1" -> 1 [] c = "2" -> 2 [] c = "3" -> 3 [] c = "4" -> 4
      [] c = "5" -> 5 [] c = "6" -> 6 [] c = "7" -> 7 [] c = "8" -> 8 [] c = "9" -> 9
      [] OTHER -> -1

IsDigit(c) == DigitValue(c) >= 0

RECURSIVE DecimalValue(_, _)
DecimalValue(s, acc) ==
    IF s = <<>> THEN acc ELSE DecimalValue(Tail(s), 10 * acc + DigitValue(Head(s)))

(* int(s): surrounding whitespace and one sign are allowed, then one or    *)
(* more decimal digits; anything else raises ValueError.                   *)
IntBody(s) ==
    LET t == strip(s)
    IN  IF t # <<>> /\ Head(t) \in {"+", "-"} THEN Tail(t) ELSE t

IntParses(s) ==
    LET b == IntBody(s)
    IN  b # <<>> /\ \A i \in 1 .. Len(b) : IsDigit(b[i])

IntOf(s) ==
    LET t == strip(s)
    IN  IF t # <<>> /\ Head(t) = "-"
        THEN 0 - DecimalValue(Tail(t), 0)
        ELSE DecimalValue(IntBody(s), 0)

RECURSIVE Decimal(_)
Decimal(n) ==
    IF n < 10 THEN <<Digits[n + 1]>>
    ELSE Append(Decimal(n \div 10), Digits[(n % 10) + 1])

Abs(x) == IF x < 0 THEN 0 - x ELSE x

----------------------------------------------------------------------------
(* Requests *)

SLACK_SIGNING_SECRET == "signing-secret"

Form(command, text, user_id) ==
    [command |-> command, text |-> text, channel_id |-> "C1", user_id |-> user_id]

NoForm == Form("", <<>>, "")

(* f"v0:{timestamp}:{body}" *)
BaseString(timestamp, body) == <<"v0", ":", timestamp, ":", body>>

(* hmac.new(key, msg, hashlib.sha256).hexdigest() *)
HmacSha256Hex(key, msg) == [key |-> key, msg |-> msg]

SignatureString(prefix, key, timestamp, body) ==
    [prefix |-> prefix, hex |-> HmacSha256Hex(key, BaseString(timestamp, body))]

EmptySignature == SignatureString("", "", <<>>, NoForm)

(* req.headers.get(name): None when the header is absent *)
Header(value) == [present |-> TRUE, value |-> value]
NoTimestamp == [present |-> FALSE, value |-> <<>>]
NoSignature == [present |-> FALSE, value |-> EmptySignature]

Request(timestamp, signature, form) ==
    [timestamp |-> timestamp, signature |-> signature, form |-> form]

NoRequest == Request(NoTimestamp, NoSignature, NoForm)

----------------------------------------------------------------------------
(* verify_slack_request *)

(* if not timestamp or not slack_signature *)
HeaderMissing(r) ==
    \/ ~r.timestamp.present
    \/ r.timestamp.value = <<>>
    \/ ~r.signature.present
    \/ r.signature.value = EmptySignature

(* abs(time.time() - int(timestamp)) > 300, with the clock in ticks *)
StaleBackwardOnly(timestamp, time) ==
    time - IntOf(timestamp) * TicksPerSec > ReplayWindow * TicksPerSec

StaleInclusive(timestamp, time) ==
    Abs(time - IntOf(timestamp) * TicksPerSec) >= ReplayWindow * TicksPerSec

StaleTimestamp(timestamp, time) ==
    Abs(time - IntOf(timestamp) * TicksPerSec) > ReplayWindow * TicksPerSec

(* "v0=" + hmac.new(SLACK_SIGNING_SECRET, f"v0:{timestamp}:{body}").hexdigest() *)
computed_signature(timestamp, body) ==
    SignatureString("v0=", SLACK_SIGNING_SECRET, timestamp, body)

(* hmac.compare_digest(a, b): equality, in constant time *)
CompareAlwaysEqual(a, b) == TRUE

CompareIgnoringMessage(a, b) == a.prefix = b.prefix /\ a.hex.key = b.hex.key

compare_digest(a, b) == a = b

(* "accept" for True, "reject" for False, "error" when int() raises *)
verify_slack_request(r, time) ==
    IF HeaderMissing(r) THEN "reject"
    ELSE IF ~IntParses(r.timestamp.value) THEN "error"
    ELSE IF StaleTimestamp(r.timestamp.value, time) THEN "reject"
    ELSE IF compare_digest(computed_signature(r.timestamp.value, r.form),
                           r.signature.value)
         THEN "accept"
         ELSE "reject"

----------------------------------------------------------------------------
(* Messages, payloads and responses *)

Message(kind, repos, lines) == [kind |-> kind, repos |-> repos, lines |-> lines]

NoMessage == Message("", {}, <<>>)

Pending(text, ephemeral) == [text |-> text, ephemeral |-> ephemeral]

NoPending == Pending(NoMessage, FALSE)

NoUser == "<no user key>"

(* payload = {"channel": ..., "text": ...}; payload["user"] when ephemeral; *)
(* posted to SLACK_API_URL_EPHEMERAL or SLACK_API_URL_ALL                    *)
Payload(channel_id, text, ephemeral, user_id) ==
    [url     |-> IF ephemeral THEN "SLACK_API_URL_EPHEMERAL" ELSE "SLACK_API_URL_ALL",
     channel |-> channel_id,
     text    |-> text,
     user    |-> IF ephemeral THEN user_id ELSE NoUser]

(* response_data = response.json(); only its "ok" member is read *)
Answer(ok) == [ok |-> ok]

NoAnswer == [ok |-> "none"]

Response(status, body) == [status |-> status, body |-> body]

NoResponse == Response(0, "")

NoIter == [used |-> 0, snap |-> {}, out |-> <<>>]

command_handlers == {"/help", "/check", "/freeze", "/unfreeze"}

HandlerOf(command) ==
    CASE command = "/help" -> "handle_help"
      [] command = "/check" -> "handle_check"
      [] command = "/freeze" -> "handle_freeze"
      [] command = "/unfreeze" -> "handle_unfreeze"

(* command_text = data.get("text", "").strip() *)
command_text(t) == strip(req[t].form.text)

----------------------------------------------------------------------------
(* Set operations on frozen_repos *)

(* frozen_repos.update(repos) *)
UpdateOverwrites(S, repos) == repos

update(S, repos) == S \cup repos

(* repos.intersection(frozen_repos) *)
IntersectionIgnoresStore(repos, S) == repos

intersection(repos, S) == repos \cap S

(* frozen_repos.difference_update(unfrozen) *)
DifferenceKeepsOne(S, removed) ==
    IF removed = {} THEN S ELSE S \ {CHOOSE x \in removed : TRUE}

difference_update(S, removed) == S \ removed

----------------------------------------------------------------------------
(* The state after construction: no request in flight *)

TypeInit ==
    /\ pc = [t \in Threads |-> "idle"]
    /\ req = [t \in Threads |-> NoRequest]
    /\ now = [t \in Threads |-> 0]
    /\ before = [t \in Threads |-> {}]
    /\ unfrozen = [t \in Threads |-> {}]
    /\ message = [t \in Threads |-> NoPending]
    /\ it = [t \in Threads |-> NoIter]
    /\ posts = [t \in Threads |-> <<>>]
    /\ response_data = [t \in Threads |-> NoAnswer]
    /\ resp = [t \in Threads |-> NoResponse]

ReplyAccepted(t, status, body) ==
    /\ resp' = [resp EXCEPT ![t] = Response(200, body)]
    /\ pc' = [pc EXCEPT ![t] = "done"]

(* return value, status: the request is answered *)
Reply(t, status, body) ==
    /\ resp' = [resp EXCEPT ![t] = Response(status, body)]
    /\ pc' = [pc EXCEPT ![t] = "done"]

(* the handler calls send_slack_message(channel_id, message, ephemeral, user_id) *)
Send(t, text, ephemeral) ==
    /\ message' = [message EXCEPT ![t] = Pending(text, ephemeral)]
    /\ pc' = [pc EXCEPT ![t] = "send_slack_message"]

----------------------------------------------------------------------------
(* slack_command: verification and dispatch of the request r arriving at   *)
(* clock value time                                                        *)

slack_command(t, r, time) ==
    /\ pc[t] = "idle"
    /\ req' = [req EXCEPT ![t] = r]
    /\ now' = [now EXCEPT ![t] = time]
    /\ before' = [before EXCEPT ![t] = frozen_repos]
    /\ LET verdict == verify_slack_request(r, time)
       IN  CASE verdict = "reject" -> Reply(t, 401, "Unauthorized request")
             [] verdict = "error" -> Reply(t, 500, "Internal Server Error")
             [] OTHER ->
                  IF r.form.command \in command_handlers
                  THEN /\ pc' = [pc EXCEPT ![t] = HandlerOf(r.form.command)]
                       /\ UNCHANGED resp
                  ELSE Reply(t, 400, "Unknown command")
    /\ UNCHANGED <<frozen_repos, unfrozen, message, it, posts, response_data>>

handle_help(t) ==
    /\ pc[t] = "handle_help"
    /\ Send(t, Message("help", {}, <<>>), TRUE)
    /\ UNCHANGED <<frozen_repos, req, now, before, unfrozen, it,
                 posts, response_data, resp>>

(* handle_check, line 83: if not frozen_repos *)
handle_check(t) ==
    /\ pc[t] = "handle_check"
    /\ IF frozen_repos = {}
       THEN Send(t, Message("no_repositories_frozen", {}, <<>>), TRUE)
       ELSE /\ pc' = [pc EXCEPT ![t] = "check_iter"]
            /\ UNCHANGED message
    /\ UNCHANGED <<frozen_repos, req, now, before, unfrozen, it,
                 posts, response_data, resp>>

(* line 86: iter(frozen_repos): the iterator remembers the set's size *)
check_iter(t) ==
    /\ pc[t] = "check_iter"
    /\ it' = [it EXCEPT ![t] = [used |-> Cardinality(frozen_repos),
                                 snap |-> frozen_repos,
                                 out |-> <<>>]]
    /\ pc' = [pc EXCEPT ![t] = "check_next"]
    /\ UNCHANGED <<frozen_repos, req, now, before, unfrozen, message,
                 posts, response_data, resp>>

IterRepeats(t) ==
    IF Len(it[t].out) < it[t].used THEN frozen_repos ELSE {}

(* The entries the iterator can still reach.  While the set is the one it  *)
(* was created on, these are the entries not yet yielded; once the table   *)
(* has been rewritten under it (same size, other entries) any entry may    *)
(* come next.                                                              *)
IterCandidates(t) ==
    IF frozen_repos = it[t].snap
    THEN frozen_repos \ Range(it[t].out)
    ELSE IF Len(it[t].out) + 1 < 2 * it[t].used THEN frozen_repos ELSE {}

(* line 86: one next() of the generator over frozen_repos; a changed size  *)
(* raises RuntimeError, which Flask answers with 500; exhaustion builds    *)
(* the message and sends it                                                *)
check_next(t) ==
    /\ pc[t] = "check_next"
    /\ IF Cardinality(frozen_repos) # it[t].used
       THEN /\ Reply(t, 500, "Internal Server Error")
            /\ UNCHANGED <<it, message>>
       ELSE \/ /\ \E repo \in IterCandidates(t) :
                    it' = [it EXCEPT ![t].out = Append(@, repo)]
               /\ UNCHANGED <<pc, resp, message>>
            \/ /\ \/ IterCandidates(t) = {}
                  \/ frozen_repos # it[t].snap
               /\ Send(t, Message("frozen_list", {}, it[t].out), TRUE)
               /\ UNCHANGED <<it, resp>>
    /\ UNCHANGED <<frozen_repos, req, now, before, unfrozen,
                 posts, response_data>>

(* handle_freeze, lines 91-96 *)
handle_freeze(t) ==
    /\ pc[t] = "handle_freeze"
    /\ IF command_text(t) = <<>>
       THEN /\ Send(t, Message("freeze_prompt", {}, <<>>), TRUE)
            /\ UNCHANGED frozen_repos
       ELSE /\ frozen_repos' = update(frozen_repos, ParseRepos(command_text(t)))
            /\ Send(t, Message("freeze_placed", ParseRepos(command_text(t)), <<>>), FALSE)
    /\ UNCHANGED <<req, now, before, unfrozen, it, posts, response_data, resp>>

(* handle_unfreeze, lines 100-116 and 119: everything but the mutations *)
handle_unfreeze(t) ==
    /\ pc[t] = "handle_unfreeze"
    /\ IF command_text(t) = <<>>
       THEN /\ Send(t, Message("unfreeze_prompt", {}, <<>>), TRUE)
            /\ UNCHANGED unfrozen
       ELSE IF IsAll(command_text(t))
       THEN /\ IF frozen_repos = {}
               THEN Send(t, Message("no_repositories_frozen", {}, <<>>), FALSE)
               ELSE /\ pc' = [pc EXCEPT ![t] = "clear"]
                    /\ UNCHANGED message
            /\ UNCHANGED unfrozen
       ELSE LET found == intersection(ParseRepos(command_text(t)), frozen_repos)
            IN  /\ unfrozen' = [unfrozen EXCEPT ![t] = found]
                /\ IF found = {}
                   THEN Send(t, Message("none_of_specified_frozen", {}, <<>>), TRUE)
                   ELSE /\ pc' = [pc EXCEPT ![t] = "difference_update"]
                        /\ UNCHANGED message
    /\ UNCHANGED <<frozen_repos, req, now, before, it,
                 posts, response_data, resp>>

(* lines 108-110: frozen_repos.clear() *)
clear(t) ==
    /\ pc[t] = "clear"
    /\ frozen_repos' = {}
    /\ Send(t, Message("all_lifted", {}, <<>>), FALSE)
    /\ UNCHANGED <<req, now, before, unfrozen, it, posts, response_data, resp>>

(* lines 118-120: frozen_repos.difference_update(unfrozen) *)
unfreeze_difference_update(t) ==
    /\ pc[t] = "difference_update"
    /\ frozen_repos' = difference_update(frozen_repos, unfrozen[t])
    /\ Send(t, Message("freeze_lifted", unfrozen[t], <<>>), FALSE)
    /\ UNCHANGED <<req, now, before, unfrozen, it, posts, response_data, resp>>

(* send_slack_message: one POST; Slack answers ok or not *)
send_slack_message(t) ==
    /\ pc[t] = "send_slack_message"
    /\ posts' = [posts EXCEPT ![t] =
                    Append(@, Payload(req[t].form.channel_id, message[t].text,
                                      message[t].ephemeral, req[t].form.user_id))]
    /\ \E ok \in BOOLEAN :
          /\ response_data' = [response_data EXCEPT ![t] = Answer(ok)]
          /\ IF ok THEN Reply(t, 200, "") ELSE Reply(t, 500, "Error occurred")
    /\ UNCHANGED <<frozen_repos, req, now, before, unfrozen, message, it>>

(* the response has gone out; the thread takes the next request *)
Return(t) ==
    /\ pc[t] = "done"
    /\ pc' = [pc EXCEPT ![t] = "idle"]
    /\ req' = [req EXCEPT ![t] = NoRequest]
    /\ now' = [now EXCEPT ![t] = 0]
    /\ before' = [before EXCEPT ![t] = {}]
    /\ unfrozen' = [unfrozen EXCEPT ![t] = {}]
    /\ message' = [message EXCEPT ![t] = NoPending]
    /\ it' = [it EXCEPT ![t] = NoIter]
    /\ posts' = [posts EXCEPT ![t] = <<>>]
    /\ response_data' = [response_data EXCEPT ![t] = NoAnswer]
    /\ resp' = [resp EXCEPT ![t] = NoResponse]
    /\ UNCHANGED frozen_repos

(* the steps of a request already received *)
Handle(t) ==
    \/ handle_help(t)
    \/ handle_check(t)
    \/ check_iter(t)
    \/ check_next(t)
    \/ handle_freeze(t)
    \/ handle_unfreeze(t)
    \/ clear(t)
    \/ unfreeze_difference_update(t)
    \/ send_slack_message(t)

----------------------------------------------------------------------------
(* The requests the environment sends *)

Chars == {"a", "A", " ", ","}

GeneratedTexts == UNION {[1 .. n -> Chars] : n \in 0 .. MaxTextLen}

ExtraTexts ==
    { <<"A", ",", " ", "a", ",", " ", "A">>,
      <<"a", "l", "l">>, <<"A", "L", "L">>, <<" ", "a", "L", "l", " ">>,
      <<"b">>, <<"A", ",", "b">>, <<" ", ",", " ", ",">>, <<"a", "l", "l", ",">> }

Texts == GeneratedTexts \cup ExtraTexts

Now0 == ClockStart * TicksPerSec

(* a request Slack signed at second ClockStart *)
Signed(form) ==
    Request(Header(Decimal(ClockStart)),
            Header(SignatureString("v0=", SLACK_SIGNING_SECRET, Decimal(ClockStart), form)),
            form)

TextForms ==
    {Form(c, text, "U1") : c \in {"/freeze", "/unfreeze"}, text \in Texts}
      \cup {Form(c, <<>>, "U1") : c \in {"/help", "/check", "/bogus"}}

AuthForms ==
    { Form("/freeze", <<"A">>, "U1"), Form("/unfreeze", ALL, "U2"),
      Form("/check", <<>>, "U1"), Form("/bogus", <<>>, "U2") }

Tampered(form) ==
    [form EXCEPT !.text = IF @ = <<"b">> THEN <<"A">> ELSE <<"b">>]

TimestampHeaders ==
    {NoTimestamp, Header(<<>>), Header(<<"x">>)}
      \cup {Header(Decimal(ClockStart + d)) :
              d \in {0 - ReplayWindow - 1, 0 - ReplayWindow, 0,
                     ReplayWindow, ReplayWindow + 1}}

SignatureHeaders(timestamp, form) ==
    {NoSignature, Header(EmptySignature),
     Header(SignatureString("", SLACK_SIGNING_SECRET, timestamp, form))}
      \cup {Header(SignatureString("v0=", k, ts, f)) :
              k \in {SLACK_SIGNING_SECRET, "other-secret"},
              ts \in {timestamp, Decimal(ClockStart + 1)},
              f \in {form, Tampered(form)}}

AuthRequests ==
    UNION {{Request(ts, sg, f) : sg \in SignatureHeaders(ts.value, f)} :
             ts \in TimestampHeaders, f \in AuthForms}

SeqTimes == {Now0 + k : k \in 0 .. TicksPerSec - 1}

SeqArrivals ==
    (AuthRequests \X SeqTimes) \cup ({Signed(f) : f \in TextForms} \X {Now0})

ConcNames == {<<"A">>, <<"B">>}

ConcForms ==
    {Form("/freeze", text, "U1") : text \in {<<"A">>, <<"B">>}}
      \cup {Form("/unfreeze", text, "U1") : text \in {<<"A">>, <<"B">>, ALL}}
      \cup {Form(c, <<>>, "U1") : c \in {"/help", "/check"}}

ConcRequests ==
    {Signed(f) : f \in ConcForms}
      \cup {Request(Header(Decimal(ClockStart)), NoSignature, Form("/freeze", <<"A">>, "U1"))}

----------------------------------------------------------------------------
(* Spec: every thread handles one request, concurrently with the others,  *)
(* from any frozen set                                                     *)

Init ==
    /\ TypeInit
    /\ frozen_repos \in SUBSET ConcNames

Next ==
    \E t \in Threads :
        \/ /\ pc[t] = "idle"
           /\ \E r \in ConcRequests : slack_command(t, r, Now0)
        \/ Handle(t)

Spec == Init /\ [][Next]_vars

(* SeqSpec: one thread handles one request after the other, from the      *)
(* empty set the process starts with                                       *)

SeqInit ==
    /\ TypeInit
    /\ frozen_repos = {}

WithinBounds(r) ==
    r.form.command = "/freeze" =>
        Cardinality(frozen_repos \cup ParseRepos(strip(r.form.text))) <= MaxFrozen

SeqNext ==
    \/ /\ pc[1] = "idle"
       /\ \E a \in SeqArrivals : WithinBounds(a[1]) /\ slack_command(1, a[1], a[2])
    \/ Handle(1)
    \/ Return(1)

SeqSpec == SeqInit /\ [][SeqNext]_vars

----------------------------------------------------------------------------
(* Vocabulary of the properties *)

InFlight(t) == pc[t] # "idle"

Done(t) == pc[t] = "done"

TextOf(t) == strip(req[t].form.text)

(* the signature header is "v0=" + HMAC(secret, "v0:{timestamp}:{body}") *)
SignedFor(r, timestamp, body) ==
    /\ r.signature.present
    /\ r.signature.value.prefix = "v0="
    /\ r.signature.value.hex.key = SLACK_SIGNING_SECRET
    /\ r.signature.value.hex.msg[3] = timestamp
    /\ r.signature.value.hex.msg[5] = body

CorrectSignature(r) == SignedFor(r, r.timestamp.value, r.form)

HeadersGiven(r) ==
    /\ r.timestamp.present /\ r.timestamp.value # <<>>
    /\ r.signature.present /\ r.signature.value # EmptySignature

(* the distance between the clock and the timestamp, in ticks *)
Age(t) == Abs(now[t] - IntOf(req[t].timestamp.value) * TicksPerSec)

Window == ReplayWindow * TicksPerSec

(* the request in flight on t is one Slack would have sent just now *)
Authentic(t) ==
    /\ InFlight(t)
    /\ HeadersGiven(req[t])
    /\ IntParses(req[t].timestamp.value)
    /\ Age(t) <= Window
    /\ CorrectSignature(req[t])

Runs(t, command) == Authentic(t) /\ req[t].form.command = command

Unauthorized(t) == Done(t) /\ resp[t].status = 401

(* the one message the finished request posted *)
Posted(t, url, kind) ==
    /\ Len(posts[t]) = 1
    /\ posts[t][1].url = url
    /\ posts[t][1].text.kind = kind

Private(t, kind) ==
    /\ Posted(t, "SLACK_API_URL_EPHEMERAL", kind)
    /\ posts[t][1].user = req[t].form.user_id

Broadcast(t, kind) ==
    /\ Posted(t, "SLACK_API_URL_ALL", kind)
    /\ posts[t][1].user = NoUser

Lowercase == {"a", "b", "l", "x"}

Normalized(name) ==
    /\ name # <<>>
    /\ Head(name) \notin Whitespace
    /\ name[Len(name)] \notin Whitespace
    /\ \A i \in 1 .. Len(name) : name[i] \notin Lowercase

----------------------------------------------------------------------------
(* C1: two freeze requests that run concurrently, from any frozen set S,   *)
(* both post their broadcast confirmation, and once both are finished the  *)
(* frozen set is S with the names of both added: no update is lost.        *)

FreezeFinished(t) ==
    /\ Done(t)
    /\ Runs(t, "/freeze")
    /\ TextOf(t) # <<>>

C1_NoLostUpdate ==
    \A t1 \in Threads, t2 \in Threads :
        ( /\ t1 # t2
          /\ FreezeFinished(t1) /\ FreezeFinished(t2)
          /\ \A o \in Threads \ {t1, t2} : pc[o] = "idle" )
        => /\ frozen_repos =
                (before[t1] \cap before[t2])
                    \cup ParseRepos(TextOf(t1)) \cup ParseRepos(TextOf(t2))
           /\ \A t \in {t1, t2} :
                /\ Broadcast(t, "freeze_placed")
                /\ posts[t][1].text.repos = ParseRepos(TextOf(t))

C1_Witness ==
    /\ FreezeFinished(1) /\ FreezeFinished(2)
    /\ TextOf(1) = <<"A">> /\ TextOf(2) = <<"B">>
    /\ before[1] = {} /\ before[2] = {}
    /\ frozen_repos = {<<"A">>, <<"B">>}

----------------------------------------------------------------------------
(* C2: a request that ends in a reported failure (401, 400, a private      *)
(* prompt, a private warning, or the 500 of a failed notification) leaves  *)
(* the frozen set as it found it.                                          *)

ReportedFailure(t) ==
    /\ Done(t)
    /\ \/ resp[t].status \in {400, 401, 500}
       \/ /\ Len(posts[t]) = 1
          /\ posts[t][1].text.kind \in
                {"freeze_prompt", "unfreeze_prompt", "none_of_specified_frozen"}

C2_FailureLeavesSetUnchanged ==
    \A t \in Threads : ReportedFailure(t) => frozen_repos = before[t]

----------------------------------------------------------------------------
(* C3: a request that verify_slack_request rejects (a header absent or     *)
(* empty, a timestamp outside the window, a signature other than the       *)
(* expected one) is answered 401, posts nothing to Slack and leaves the    *)
(* frozen set alone, whatever its command and text.                        *)

FailsVerification(t) ==
    /\ InFlight(t)
    /\ \/ ~HeadersGiven(req[t])
       \/ /\ IntParses(req[t].timestamp.value)
          /\ (Age(t) > Window \/ ~CorrectSignature(req[t]))

C3_RejectedHasNoEffect ==
    \A t \in Threads :
        FailsVerification(t) =>
            /\ Unauthorized(t)
            /\ posts[t] = <<>>
            /\ message[t] = NoPending
            /\ frozen_repos = before[t]

C3_Witness ==
    /\ FailsVerification(1)
    /\ req[1].form = Form("/freeze", <<"A">>, "U1")
    /\ HeadersGiven(req[1]) /\ Age(1) = 0 /\ ~CorrectSignature(req[1])
    /\ req[1].signature.value.hex.key = SLACK_SIGNING_SECRET
    /\ Unauthorized(1)

----------------------------------------------------------------------------
(* C4: a request whose timestamp is more than 300 seconds from the clock,  *)
(* in the past or in the future, is rejected even when correctly signed;   *)
(* one exactly 300 seconds away is not rejected for its age.               *)

WellFormed(t) ==
    /\ InFlight(t)
    /\ HeadersGiven(req[t])
    /\ IntParses(req[t].timestamp.value)

C4_ReplayWindow ==
    \A t \in Threads :
        WellFormed(t) =>
            /\ Age(t) > Window => Unauthorized(t)
            /\ (Age(t) = Window /\ CorrectSignature(req[t])) => ~Unauthorized(t)

C4_Witness ==
    /\ WellFormed(1) /\ CorrectSignature(req[1])
    /\ now[1] - IntOf(req[1].timestamp.value) * TicksPerSec = Window + 1
    /\ Unauthorized(1)

----------------------------------------------------------------------------
(* C5: a request gets past verification only with the signature "v0=" +    *)
(* HMAC(secret, "v0:{timestamp}:{body}") of its own timestamp and body: a  *)
(* signature made for another body or another timestamp is rejected.       *)

PastVerification(t) ==
    /\ InFlight(t)
    /\ ~(Done(t) /\ resp[t].body \in {"Unauthorized request", "Internal Server Error"})

C5_SignatureCoversRequest ==
    \A t \in Threads :
        /\ PastVerification(t) =>
              SignedFor(req[t], req[t].timestamp.value, req[t].form)
        /\ \A ts \in {h.value : h \in TimestampHeaders} \cup {Decimal(ClockStart + 1)},
              body \in {req[t].form, Tampered(req[t].form)} :
              ( /\ InFlight(t)
                /\ SignedFor(req[t], ts, body)
                /\ <<ts, body>> # <<req[t].timestamp.value, req[t].form>> )
              => ~PastVerification(t)

C5_Witness ==
    /\ SignedFor(req[1], req[1].timestamp.value, Tampered(req[1].form))
    /\ IntParses(req[1].timestamp.value) /\ Age(1) = 0
    /\ Unauthorized(1)

----------------------------------------------------------------------------
(* C6: every name in the frozen set is non-empty, has no whitespace at     *)
(* either end and no lowercase letter, so no two entries differ only in    *)
(* case; freeze("A, a, A") adds the single entry A, and check lists each   *)
(* entry once.                                                             *)

AaA == <<"A", ",", " ", "a", ",", " ", "A">>

C6_NamesNormalized ==
    /\ \A name \in frozen_repos : Normalized(name)
    /\ \A x \in frozen_repos, y \in frozen_repos : lower(x) = lower(y) => x = y
    /\ \A t \in Threads :
          /\ (Done(t) /\ Runs(t, "/freeze") /\ req[t].form.text = AaA)
                => frozen_repos = before[t] \cup {<<"A">>}
          /\ (Done(t) /\ Runs(t, "/check") /\ before[t] # {})
                => /\ Private(t, "frozen_list")
                   /\ Len(posts[t][1].text.lines) = Cardinality(before[t])
                   /\ Range(posts[t][1].text.lines) = before[t]

C6_Witness ==
    /\ Done(1) /\ Runs(1, "/freeze") /\ req[1].form.text = AaA
    /\ before[1] = {}
    /\ frozen_repos = {<<"A">>}
    /\ posts[1][1].text.repos = {<<"A">>}

----------------------------------------------------------------------------
(* C7: a freeze or unfreeze whose text holds only commas and whitespace    *)
(* is answered like one with no text: the private prompt for a repository  *)
(* name, and the frozen set is unchanged.                                  *)

OnlySeparators(text) ==
    \A i \in 1 .. Len(text) : text[i] \in Whitespace \cup {","}

C7_SeparatorsOnlyIsEmpty ==
    \A t \in Threads :
        /\ (Done(t) /\ Runs(t, "/freeze") /\ OnlySeparators(req[t].form.text))
              => (Private(t, "freeze_prompt") /\ frozen_repos = before[t])
        /\ (Done(t) /\ Runs(t, "/unfreeze") /\ OnlySeparators(req[t].form.text))
              => (Private(t, "unfreeze_prompt") /\ frozen_repos = before[t])

----------------------------------------------------------------------------
(* C8, as claimed: an unfreeze that finds nothing to remove (`all` on an empty store,  *)
(* or names none of which is frozen) replies privately to the requester,   *)
(* never on the channel.                                                   *)

AllSpellings == {<<"a", "l", "l">>, <<"A", "L", "L">>, <<"a", "L", "l">>}

NothingToRemove(t) ==
    /\ Runs(t, "/unfreeze")
    /\ TextOf(t) # <<>>
    /\ IF TextOf(t) \in AllSpellings
       THEN before[t] = {}
       ELSE ParseRepos(TextOf(t)) \cap before[t] = {}

C8_NoOpIsPrivate ==
    \A t \in Threads :
        (Done(t) /\ NothingToRemove(t)) =>
            /\ Len(posts[t]) = 1
            /\ posts[t][1].url = "SLACK_API_URL_EPHEMERAL"
            /\ posts[t][1].user = req[t].form.user_id

(* C8, amended: an unfreeze naming repositories none of which is frozen    *)
(* replies privately to the requester; `all` on an empty store replies     *)
(* with the "no repositories frozen" message on the channel.  Neither      *)
(* changes the frozen set.                                                 *)
C8_NoOpVisibility ==
    \A t \in Threads :
        (Done(t) /\ NothingToRemove(t)) =>
            /\ IF TextOf(t) \in AllSpellings
               THEN Broadcast(t, "no_repositories_frozen")
               ELSE Private(t, "none_of_specified_frozen")
            /\ frozen_repos = before[t]

C8_Witness ==
    /\ Done(1) /\ NothingToRemove(1)
    /\ TextOf(1) = <<"A", "L", "L">>
    /\ Broadcast(1, "no_repositories_frozen")
    /\ frozen_repos = {}

----------------------------------------------------------------------------
(* C9: unfreeze `all`, in any letter case, on a non-empty set leaves the   *)
(* set empty; the set stays empty until a freeze; and a check that finds   *)
(* the set empty replies with the empty-state message, not a list.         *)

C9_UnfreezeAllThenCheck ==
    \A t \in Threads :
        /\ ( /\ Done(t) /\ Runs(t, "/unfreeze")
             /\ TextOf(t) \in AllSpellings /\ before[t] # {} )
           => (frozen_repos = {} /\ Broadcast(t, "all_lifted"))
        /\ (InFlight(t) /\ before[t] = {} /\ frozen_repos # {})
           => Runs(t, "/freeze")
        /\ (Done(t) /\ Runs(t, "/check") /\ before[t] = {})
           => Private(t, "no_repositories_frozen")

C9_Witness ==
    /\ Done(1) /\ Runs(1, "/unfreeze")
    /\ TextOf(1) = <<"A", "L", "L">>
    /\ before[1] # {}
    /\ frozen_repos = {}
    /\ Broadcast(1, "all_lifted")

----------------------------------------------------------------------------
(* C10: an unfreeze, other than `all`, none of whose names is frozen       *)
(* replies with the private "none of the specified repositories" warning   *)
(* and leaves the frozen set as it was.                                    *)

C10_UnfreezeUnknownIsNoOp ==
    \A t \in Threads :
        ( /\ Done(t) /\ Runs(t, "/unfreeze")
          /\ TextOf(t) # <<>> /\ TextOf(t) \notin AllSpellings
          /\ ParseRepos(TextOf(t)) \cap before[t] = {} )
        => /\ Private(t, "none_of_specified_frozen")
           /\ frozen_repos = before[t]

C10_Witness ==
    /\ Done(1) /\ Runs(1, "/unfreeze")
    /\ TextOf(1) = <<"b">>
    /\ before[1] = {<<"A">>}
    /\ frozen_repos = {<<"A">>}
    /\ Private(1, "none_of_specified_frozen")

----------------------------------------------------------------------------
(* C11, as claimed: batching does not matter.  The set a freeze or an      *)
(* unfreeze of a comma-separated list leaves is the set that separate      *)
(* requests, one per piece of the list and in any order, leave.            *)

(* what one verified request, run alone, makes of the frozen set S *)
Effect(S, command, text) ==
    LET arg == strip(text)
    IN  IF arg = <<>> THEN S
        ELSE IF command = "/freeze" THEN S \cup ParseRepos(arg)
        ELSE IF command = "/unfreeze"
             THEN IF lower(arg) = ALL THEN {} ELSE S \ ParseRepos(arg)
        ELSE S

(* of the pieces still to send, one index for each distinct piece *)
Distinct(pieces, I) ==
    {i \in I : \A j \in I : pieces[j] = pieces[i] => i <= j}

(* the sets that sending the pieces I one by one, in any order, can leave *)
RECURSIVE Replays(_, _, _, _)
Replays(S, command, pieces, I) ==
    IF I = {} THEN {S}
    ELSE UNION {Replays(Effect(S, command, pieces[i]), command, pieces, I \ {i}) :
                  i \in Distinct(pieces, I)}

Pieces(t) == split(TextOf(t), ",")

Batched(t) ==
    /\ Done(t)
    /\ Runs(t, "/freeze") \/ Runs(t, "/unfreeze")

NamesAll(t) ==
    \E i \in DOMAIN Pieces(t) : lower(strip(Pieces(t)[i])) = ALL

C11_BatchingIndependent ==
    \A t \in Threads :
        Batched(t) =>
            Replays(before[t], req[t].form.command, Pieces(t), DOMAIN Pieces(t))
                = {frozen_repos}

(* C11, amended: the same, for every freeze, and for every unfreeze whose  *)
(* list is the single word `all` or has no piece `all` (in any letter      *)
(* case): sent alone, `all` lifts every freeze, not the freeze of a        *)
(* repository named ALL.                                                   *)
C11_BatchingIndependentButAll ==
    \A t \in Threads :
        ( /\ Batched(t)
          /\ \/ Runs(t, "/freeze")
             \/ Len(Pieces(t)) = 1
             \/ ~NamesAll(t) )
        => Replays(before[t], req[t].form.command, Pieces(t), DOMAIN Pieces(t))
              = {frozen_repos}

C11_Witness ==
    /\ Batched(1) /\ Runs(1, "/unfreeze")
    /\ req[1].form.text = <<"A", ",", "b">>
    /\ before[1] = {<<"A">>, <<"B">>}
    /\ frozen_repos = {}
    /\ Replays(before[1], "/unfreeze", Pieces(1), {1, 2}) = {{}}

----------------------------------------------------------------------------
(* C12: requests that run concurrently behave as if they ran one after     *)
(* the other: the replies of two finished requests and the frozen set      *)
(* they leave are those of one of the two serial orders.  Of two           *)
(* concurrent unfreezes of the same frozen repository, or two concurrent   *)
(* `unfreeze all`, at most one replies that the freeze was lifted.         *)

Reported(kind, repos) == [kind |-> kind, repos |-> repos]

(* the reply of one verified request run alone on the frozen set S *)
SerialReply(S, command, text) ==
    LET arg == strip(text)
    IN  CASE command = "/help" -> Reported("help", {})
          [] command = "/check" ->
               IF S = {} THEN Reported("no_repositories_frozen", {})
               ELSE Reported("frozen_list", S)
          [] command = "/freeze" ->
               IF arg = <<>> THEN Reported("freeze_prompt", {})
               ELSE Reported("freeze_placed", ParseRepos(arg))
          [] command = "/unfreeze" ->
               IF arg = <<>> THEN Reported("unfreeze_prompt", {})
               ELSE IF lower(arg) = ALL
               THEN IF S = {} THEN Reported("no_repositories_frozen", {})
                    ELSE Reported("all_lifted", {})
               ELSE IF ParseRepos(arg) \cap S = {}
               THEN Reported("none_of_specified_frozen", {})
               ELSE Reported("freeze_lifted", ParseRepos(arg) \cap S)

(* the reply the request on t did post; none when it ended in an error *)
ActualReply(t) ==
    IF Len(posts[t]) # 1 THEN Reported("no reply", {})
    ELSE Reported(posts[t][1].text.kind,
                  posts[t][1].text.repos \cup Range(posts[t][1].text.lines))

Finished(t) == Done(t) /\ Authentic(t)

SerialOrder(a, b) ==
    LET S0 == before[a]
        S1 == Effect(S0, req[a].form.command, req[a].form.text)
    IN  /\ ActualReply(a) = SerialReply(S0, req[a].form.command, req[a].form.text)
        /\ ActualReply(b) = SerialReply(S1, req[b].form.command, req[b].form.text)
        /\ frozen_repos = Effect(S1, req[b].form.command, req[b].form.text)

C12_Serializable ==
    \A t1 \in Threads, t2 \in Threads :
        ( /\ t1 # t2
          /\ Finished(t1) /\ Finished(t2)
          /\ \A o \in Threads \ {t1, t2} : pc[o] = "idle" )
        => (SerialOrder(t1, t2) \/ SerialOrder(t2, t1))

----------------------------------------------------------------------------
(* C13: a verified request whose command is none of /help, /check,         *)
(* /freeze, /unfreeze is answered directly with status 400 and the         *)
(* unknown-command text; nothing is posted to Slack and the frozen set is  *)
(* the one the request found.                                              *)

Recognized(t) ==
    req[t].form.command \in {"/help", "/check", "/freeze", "/unfreeze"}

Unknown(t) == Authentic(t) /\ ~Recognized(t)

C13_UnknownCommand ==
    \A t \in Threads :
        Unknown(t) =>
            /\ Done(t)
            /\ resp[t] = Response(400, "Unknown command")
            /\ posts[t] = <<>>
            /\ response_data[t] = NoAnswer
            /\ frozen_repos = before[t]

C13_Witness ==
    /\ Unknown(1)
    /\ req[1].form.command = "/bogus"
    /\ resp[1].status = 400
    /\ frozen_repos = {<<"A">>}

----------------------------------------------------------------------------
(* C14: every verified request with a recognized command posts exactly one *)
(* message to Slack; the status returned to the caller is 200 if Slack     *)
(* answers ok and 500 otherwise, and never 200 without that answer; the    *)
(* message carries the requesting user's id if and only if it goes to the  *)
(* ephemeral endpoint.                                                     *)

C14_OneMessagePerRequest ==
    \A t \in Threads :
        (Done(t) /\ Authentic(t) /\ Recognized(t)) =>
            /\ Len(posts[t]) = 1
            /\ response_data[t] \in {Answer(TRUE), Answer(FALSE)}
            /\ resp[t].status = IF response_data[t] = Answer(TRUE) THEN 200 ELSE 500
            /\ posts[t][1].user \in {NoUser, req[t].form.user_id}
            /\ posts[t][1].user = req[t].form.user_id
                   <=> posts[t][1].url = "SLACK_API_URL_EPHEMERAL"

----------------------------------------------------------------------------
(* C15: check is a pure read.  Handled after any sequence of requests, it  *)
(* replies privately with the empty-state message if and only if the       *)
(* frozen set is empty, otherwise with a list that holds exactly the       *)
(* members of the frozen set, once each, and it leaves the set as it was;  *)
(* help replies privately with the help text and leaves the set as it was. *)

ListedOnceEach(t, S) ==
    /\ Len(posts[t][1].text.lines) = Cardinality(S)
    /\ Range(posts[t][1].text.lines) = S

C15_CheckIsPureRead ==
    \A t \in Threads :
        /\ (Runs(t, "/check") \/ Runs(t, "/help")) => frozen_repos = before[t]
        /\ (Done(t) /\ Runs(t, "/check")) =>
               /\ Private(t, "no_repositories_frozen") <=> frozen_repos = {}
               /\ frozen_repos # {} =>
                      /\ Private(t, "frozen_list")
                      /\ ListedOnceEach(t, frozen_repos)
        /\ (Done(t) /\ Runs(t, "/help")) => Private(t, "help")

C15_Witness ==
    /\ Done(1) /\ Runs(1, "/check")
    /\ frozen_repos = {<<"A">>, <<"B">>}
    /\ Private(1, "frozen_list")
    /\ Len(posts[1][1].text.lines) = 2

----------------------------------------------------------------------------
(* C16: a freeze whose argument holds at least one name turns the frozen   *)
(* set S into exactly S \cup N, where N is the set of the trimmed,         *)
(* uppercased, non-empty comma-separated parts of the argument; its reply  *)
(* is broadcast and lists N; the names of S outside N stay frozen.         *)

Names(t) == {upper(strip(Pieces(t)[i])) : i \in DOMAIN Pieces(t)} \ {<<>>}

C16_FreezeAddsNames ==
    \A t \in Threads :
        (Done(t) /\ Runs(t, "/freeze") /\ Names(t) # {}) =>
            /\ frozen_repos = before[t] \cup Names(t)
            /\ before[t] \ Names(t) \subseteq frozen_repos
            /\ Broadcast(t, "freeze_placed")
            /\ posts[t][1].text.repos = Names(t)

C16_Witness ==
    /\ Done(1) /\ Runs(1, "/freeze")
    /\ req[1].form.text = <<"A", ",", "b">>
    /\ before[1] = {<<"A">>}
    /\ frozen_repos = {<<"A">>, <<"B">>}
    /\ Broadcast(1, "freeze_placed")
    /\ posts[1][1].text.repos = {<<"A">>, <<"B">>}

----------------------------------------------------------------------------
(* C17: an unfreeze whose argument is not "all" and whose normalized name  *)
(* set N overlaps the frozen set S turns the set into exactly S \ N; every *)
(* frozen name outside N stays frozen; the confirmation is broadcast and   *)
(* lists exactly S \cap N, never a name that was not frozen.               *)

Overlapping(t) ==
    /\ Runs(t, "/unfreeze")
    /\ lower(TextOf(t)) # <<"a", "l", "l">>
    /\ Names(t) \cap before[t] # {}

C17_UnfreezeRemovesNames ==
    \A t \in Threads :
        (Done(t) /\ Overlapping(t)) =>
            /\ frozen_repos = before[t] \ Names(t)
            /\ before[t] \ Names(t) \subseteq frozen_repos
            /\ Broadcast(t, "freeze_lifted")
            /\ posts[t][1].text.repos = before[t] \cap Names(t)
            /\ posts[t][1].text.repos \subseteq before[t]

C17_Witness ==
    /\ Done(1) /\ Overlapping(1)
    /\ req[1].form.text = <<"a">>
    /\ before[1] = {<<"A">>, <<"B">>}
    /\ frozen_repos = {<<"B">>}
    /\ Broadcast(1, "freeze_lifted")
    /\ posts[1][1].text.repos = {<<"A">>}

----------------------------------------------------------------------------
(* C18: a check that runs concurrently with freeze and unfreeze requests   *)
(* always completes with a reply, and what it reports is the frozen set    *)
(* as it was at one instant during the check; it never fails, and never    *)
(* reports a mixture, because the set changed while it was iterated.       *)

(* With one other request in flight, which writes the set at most once,    *)
(* the set had these values while the request on t was handled.            *)
Snapshots(t) == {before[t], frozen_repos}

OneOther(t) ==
    \E o \in Threads \ {t} : \A u \in Threads \ {t, o} : pc[u] = "idle"

ReportsSnapshot(t, S) ==
    IF S = {} THEN Private(t, "no_repositories_frozen")
    ELSE Private(t, "frozen_list") /\ ListedOnceEach(t, S)

C18_CheckSnapshot ==
    \A t \in Threads :
        (Done(t) /\ Runs(t, "/check") /\ OneOther(t)) =>
            /\ resp[t].body # "Internal Server Error"
            /\ \E S \in Snapshots(t) : ReportsSnapshot(t, S)

----------------------------------------------------------------------------
(* C19: over a sequential history of requests that starts from the empty   *)
(* store, a name is frozen if and only if a verified freeze named it and   *)
(* no verified unfreeze naming it, and no `unfreeze all`, came after the   *)
(* last such freeze.  Step by step: a name enters the set only in the      *)
(* handling of a verified freeze that names it, and has entered when that  *)
(* freeze is answered; a name leaves the set only in the handling of a     *)
(* verified unfreeze that names it or of an `unfreeze all`, and has left   *)
(* when that unfreeze is answered; unverified requests, check, help and    *)
(* unknown commands neither add nor remove a name.                         *)

UnfreezesAll(t) ==
    Runs(t, "/unfreeze") /\ lower(TextOf(t)) = <<"a", "l", "l">>

FreezeNames(t) == IF Runs(t, "/freeze") THEN Names(t) ELSE {}

UnfreezeNames(t) ==
    IF Runs(t, "/unfreeze") /\ ~UnfreezesAll(t) THEN Names(t) ELSE {}

(* The set is written by the handler of a request already in flight, and  *)
(* an answered request stays in place until its thread returns, so both    *)
(* are read in the state the step leaves.                                  *)
HistoryStep ==
    /\ \A n \in frozen_repos' \ frozen_repos :
           \E t \in Threads : n \in FreezeNames(t)
    /\ \A n \in frozen_repos \ frozen_repos' :
           \E t \in Threads : UnfreezesAll(t) \/ n \in UnfreezeNames(t)
    /\ \A t \in Threads :
           Done(t) => /\ FreezeNames(t) \subseteq frozen_repos
                      /\ UnfreezeNames(t) \cap frozen_repos = {}
                      /\ UnfreezesAll(t) => frozen_repos = {}

C19_History == [][HistoryStep]_vars

C19_Witness ==
    /\ Done(1) /\ Runs(1, "/unfreeze")
    /\ TextOf(1) = <<"b">>
    /\ before[1] = {<<"A">>, <<"B">>}
    /\ frozen_repos = {<<"A">>}

----------------------------------------------------------------------------
(* C20: verify_slack_request is total: for every request, also one whose   *)
(* timestamp or signature header is absent or empty or whose timestamp is  *)
(* not a decimal integer, it returns accept or reject, never an unhandled  *)
(* error; every request it does not accept is answered with 401.           *)

Verdict(t) == verify_slack_request(req[t], now[t])

C20_VerificationTotal ==
    \A t \in Threads :
        InFlight(t) =>
            /\ Verdict(t) \in {"accept", "reject"}
            /\ Verdict(t) # "accept" =>
                   /\ Done(t)
                   /\ resp[t] = Response(401, "Unauthorized request")

====
